---- MODULE Spec2Model ----
(***************************************************************************)
(* Model of NAsdaq100StreamlitRag.py: the retrieval-augmented chat         *)
(* pipeline (embed -> vector search -> grounded generation) and the chat   *)
(* logic driving it.                                                       *)
(*                                                                         *)
(* A Python str is a sequence of atoms.  An atom is either one character   *)
(* (tickers, companies and the punctuation of a source label, which the    *)
(* code sorts and compares) or a whole opaque phrase (literals of the      *)
(* program, chunk contents, model output, exception messages).  String     *)
(* concatenation is \o.                                                    *)
(***************************************************************************)
EXTENDS Integers, Sequences, FiniteSets, TLC

VARIABLES
    pc,               \* position of the chat logic: START, EMBEDDING, RETRIEVING, GENERATING, DONE, FAILED
    nQueries,         \* queries submitted so far in this session
    query,            \* the submitted query (line 166)
    query_embedding,  \* line 178
    rpcArgs,          \* parameters of the rpc sent to the store (lines 80-84), NoRpc before the call
    relevant_chunks,  \* line 182; the context_chunks argument of get_llm_answer
    context_text,     \* line 98
    sources,          \* line 99
    llmRequest,       \* the chat completion request (lines 128-135), NoRequest before the call
    answer,           \* lines 185 / 187
    messages,         \* st.session_state.messages
    page,             \* what st.markdown / st.error have rendered in the current script run
    events,           \* calls to the three external services in the current run, and how each ended
    embedOutcome,     \* how the embedding provider answered in the current run
    storeOutcome,     \* how the vector store answered in the current run
    llmOutcome        \* how the language model answered in the current run

vars == <<pc, nQueries, query, query_embedding, rpcArgs, relevant_chunks, context_text,
          sources, llmRequest, answer, messages, page, events, embedOutcome,
          storeOutcome, llmOutcome>>

----------------------------------------------------------------------------
(* Bounds of the model *)

MaxQueries == 2
MaxChunks == 3

----------------------------------------------------------------------------
(* Program constants *)

LLM_MODEL == "gpt-4o-mini"
\* match_threshold 0.4, in tenths
MatchThresholdTenths == 4
MatchCount == 5

EmbedFailureAnswer == <<"Fehler: Konnte die Anfrage nicht verarbeiten.">>
GenerationErrorAnswer == <<"Es gab einen Fehler bei der Generierung der Antwort.">>
FallbackPhrase == "Ich habe dazu keine Informationen in meiner Datenbank."
NoContextPlaceholder == <<"Kein Kontext gefunden.">>
ChunkDelimiter == "\n---\n"
BlankLine == "\n\n"
SourcesHeader == "**Quellen:**"
BulletSeparator == "\n- "
NA == <<"N", "/", "A">>

----------------------------------------------------------------------------
(* Python values *)

\* a value is tagged with its type; d holds the items of a dict, s those of a str or list
None == [t |-> "None", d |-> {}, s |-> << >>]
PyList(v) == [t |-> "list", d |-> {}, s |-> v]
PyStr(v) == [t |-> "str", d |-> {}, s |-> v]
PyDict(items) == [t |-> "dict", d |-> items, s |-> << >>]
\* a key that the mapping does not hold
Missing == [t |-> "missing", d |-> {}, s |-> << >>]

\* bool(x) of a Python value: None, "", [] and {} are false
Truthy(x) ==
    CASE x.t = "None" -> FALSE
      [] x.t = "missing" -> FALSE
      [] x.t = "dict" -> x.d # {}
      [] OTHER -> x.s # << >>

\* a dict is a set of <<key, value>> pairs with distinct keys
DictHas(d, k) == \E p \in d : p[1] = k
DictGet(d, k, default) == IF DictHas(d, k) THEN (CHOOSE p \in d : p[1] = k)[2] ELSE default

\* code points of the characters that occur in source labels
CodePoint ==
    [c \in {" ", "(", ")", "/", "A", "F", "L", "M", "N", "P", "S", "T", "e", "l", "p"} |->
        CASE c = " " -> 32 [] c = "(" -> 40 [] c = ")" -> 41 [] c = "/" -> 47
          [] c = "A" -> 65 [] c = "F" -> 70 [] c = "L" -> 76 [] c = "M" -> 77
          [] c = "N" -> 78 [] c = "P" -> 80 [] c = "S" -> 83 [] c = "T" -> 84
          [] c = "e" -> 101 [] c = "l" -> 108 [] c = "p" -> 112]

\* a < b on Python str: the first differing code point decides, a proper prefix is smaller
RECURSIVE StrLess(_, _)
StrLess(a, b) ==
    IF b = << >> THEN FALSE
    ELSE IF a = << >> THEN TRUE
    ELSE IF Head(a) = Head(b) THEN StrLess(Tail(a), Tail(b))
    ELSE CodePoint[Head(a)] < CodePoint[Head(b)]

\* sep.join(list)
RECURSIVE Join(_, _)
Join(sep, list) ==
    IF list = << >> THEN << >>
    ELSE IF Len(list) = 1 THEN list[1]
    ELSE list[1] \o sep \o Join(sep, Tail(list))

\* set(list)
ToSet(list) == {list[i] : i \in DOMAIN list}

\* sorted(list(s)) for a set s of str
RECURSIVE SortedList(_)
SortedList(s) ==
    IF s = {} THEN << >>
    ELSE LET least == CHOOSE a \in s : \A b \in s \ {a} : StrLess(a, b)
         IN  <<least>> \o SortedList(s \ {least})

----------------------------------------------------------------------------
(* The environment: what the user, the embedding provider, the vector     *)
(* store and the language model can hand to the program                    *)

UserQueries == {<<"What is Apple's business strategy?">>}

\* response.data[0].embedding: a vector of fixed, non-zero dimension
EmbeddingVectors == {<<12, -7, 3>>}

\* str(e) of the exceptions the client libraries raise, each an atom
EmbedExceptions == {"Error code: 401 - Incorrect API key provided"}
StoreExceptions == {"Connection timed out"}
LLMExceptions == {"Error code: 429 - Rate limit reached"}
ExceptionDetails == EmbedExceptions \cup StoreExceptions \cup LLMExceptions

AAPL == <<"A", "A", "P", "L">>
MSFT == <<"M", "S", "F", "T">>
Apple == <<"A", "p", "p", "l", "e">>

\* rows of the chunk table: content and JSONB metadata
StoreRecords ==
    { [content |-> "Apple focuses on hardware-software integration.",
       metadata |-> PyDict({<<"Ticker", AAPL>>, <<"Company", Apple>>})],
      [content |-> "Microsoft reports cloud revenue growth.",
       metadata |-> PyDict({<<"Ticker", MSFT>>})],
      [content |-> "Index methodology overview.",
       metadata |-> PyDict({<<"Ticker", << >> >>, <<"Company", Apple>>})],
      [content |-> "Quarterly market commentary.",
       metadata |-> None],
      [content |-> "Legacy row with serialized metadata.",
       metadata |-> PyStr(<<"{", "T", "}">>)],
      [content |-> "Row without metadata column.",
       metadata |-> Missing] }

\* response.choices[0].message.content
LLMTexts ==
    { <<FallbackPhrase>>,
      <<"Apple verfolgt eine enge Integration von Hardware und Software.">> }

SeqsUpTo(S, n) == UNION {[1..k -> S] : k \in 0..n}
Min(a, b) == IF a < b THEN a ELSE b

Pending == [status |-> "pending", val |-> << >>, exc |-> ""]
Returned(v) == [status |-> "ok", val |-> v, exc |-> ""]
Raised(e) == [status |-> "raise", val |-> << >>, exc |-> e]

EmbedOutcomes == {Returned(v) : v \in EmbeddingVectors} \cup {Raised(e) : e \in EmbedExceptions}
\* the store applies match_threshold and match_count itself
StoreOutcomes(args) ==
    {Returned(r) : r \in SeqsUpTo(StoreRecords, Min(MaxChunks, args.match_count))}
        \cup {Raised(e) : e \in StoreExceptions}
LLMOutcomes == {Returned(t) : t \in LLMTexts} \cup {Raised(e) : e \in LLMExceptions}

----------------------------------------------------------------------------
(* Rendering *)

StMarkdown(text) == [widget |-> "markdown", text |-> text]
StError(text) == [widget |-> "error", text |-> text]
Message(role, content) == [role |-> role, content |-> content]

\* lines 161-163: the stored conversation is rendered again on every run
RECURSIVE RenderHistory(_)
RenderHistory(msgs) ==
    IF msgs = << >> THEN << >>
    ELSE <<StMarkdown(Head(msgs).content)>> \o RenderHistory(Tail(msgs))

----------------------------------------------------------------------------
(* RAG core functions *)

\* lines 61-71
get_query_embedding(outcome) ==
    IF outcome.status = "ok"
    THEN [ret |-> PyList(outcome.val), shown |-> << >>]
    ELSE [ret |-> None,
          shown |-> <<StError(<<"Fehler beim Erstellen des Query-Embeddings: ", outcome.exc>>)>>]

NoRpc == [fn |-> "", query_embedding |-> << >>, match_threshold |-> 0, match_count |-> 0]

\* lines 80-84: the request find_similar_chunks sends
RpcRequest(embedding) ==
    [fn |-> "match_nasdaq_chunks",
     query_embedding |-> embedding.s,
     match_threshold |-> MatchThresholdTenths,
     match_count |-> MatchCount]

\* faulty variant of find_similar_chunks: filters the rows again on the client
\* side and keeps only those that carry metadata
find_similar_chunks_refiltered(outcome) ==
    IF outcome.status = "ok"
    THEN [ret |-> SelectSeq(outcome.val, LAMBDA c : Truthy(c.metadata)), shown |-> << >>]
    ELSE [ret |-> << >>,
          shown |-> <<StError(<<"Fehler bei der Vektorsuche in Supabase: ", outcome.exc>>)>>]

\* lines 85-89: what find_similar_chunks makes of the store's reply
find_similar_chunks(outcome) ==
    IF outcome.status = "ok"
    THEN [ret |-> outcome.val, shown |-> << >>]
    ELSE [ret |-> << >>,
          shown |-> <<StError(<<"Fehler bei der Vektorsuche in Supabase: ", outcome.exc>>)>>]

\* lines 108-110: the label of a source
FormatLabel(metadata) ==
    DictGet(metadata.d, "Ticker", NA) \o <<" ", "(">> \o DictGet(metadata.d, "Company", NA) \o <<")">>

\* faulty variant of ChunkSources: tests only that the metadata is non-empty,
\* not that it has a Ticker
ChunkSourcesAnyMetadata(chunk) ==
    LET metadata == IF chunk.metadata.t = "missing" THEN PyDict({}) ELSE chunk.metadata
    IN  IF ~Truthy(metadata) THEN << >>
        ELSE IF metadata.t # "dict" THEN << >>
        ELSE <<FormatLabel(metadata)>>

\* lines 106-113: the labels one chunk appends to sources; .get on a value that
\* is not a mapping raises, and the except clause drops the chunk's label
ChunkSources(chunk) ==
    LET metadata == IF chunk.metadata.t = "missing" THEN PyDict({}) ELSE chunk.metadata
    IN  IF ~Truthy(metadata) THEN << >>
        ELSE IF metadata.t # "dict" THEN << >>
        ELSE IF DictGet(metadata.d, "Ticker", << >>) # << >> THEN <<FormatLabel(metadata)>>
        ELSE << >>

\* lines 98-103: context_text after the loop
RECURSIVE ContextText(_)
ContextText(chunks) ==
    IF chunks = << >> THEN << >>
    ELSE <<ChunkDelimiter, Head(chunks).content, ChunkDelimiter>> \o ContextText(Tail(chunks))

\* lines 99-113: sources after the loop
RECURSIVE Sources(_)
Sources(chunks) ==
    IF chunks = << >> THEN << >>
    ELSE ChunkSources(Head(chunks)) \o Sources(Tail(chunks))

\* faulty variant of SystemPrompt: inserts the context as it is, empty or not
SystemPromptNoPlaceholder(ctx) ==
    << "Du bist ein Assistent für Finanzanalysen, spezialisiert auf den Nasdaq-100.",
       "Antworte auf die Frage des Benutzers basierend *ausschließlich* auf dem folgenden Kontext.",
       "Wenn der Kontext die Antwort nicht enthält, sage: ",
       FallbackPhrase,
       "Sei präzise und zitiere Fakten, wenn möglich.",
       "Kontext:" >>
    \o ctx

\* lines 116-124
SystemPrompt(ctx) ==
    << "Du bist ein Assistent für Finanzanalysen, spezialisiert auf den Nasdaq-100.",
       "Antworte auf die Frage des Benutzers basierend *ausschließlich* auf dem folgenden Kontext.",
       "Wenn der Kontext die Antwort nicht enthält, sage: ",
       FallbackPhrase,
       "Sei präzise und zitiere Fakten, wenn möglich.",
       "Kontext:" >>
    \o (IF ctx # << >> THEN ctx ELSE NoContextPlaceholder)

NoRequest == [model |-> "", messages |-> << >>, temperature |-> 0]

\* lines 128-135
ChatRequest(q, ctx) ==
    [model |-> LLM_MODEL,
     messages |-> <<Message("system", SystemPrompt(ctx)), Message("user", q)>>,
     temperature |-> 0]

\* the distinct items of a list, in the order of their first occurrence
RECURSIVE FirstOccurrences(_, _)
FirstOccurrences(list, seen) ==
    IF list = << >> THEN << >>
    ELSE IF Head(list) \in seen THEN FirstOccurrences(Tail(list), seen)
    ELSE <<Head(list)>> \o FirstOccurrences(Tail(list), seen \cup {Head(list)})

\* faulty variant of UniqueSources: removes the duplicates but does not sort
UniqueSourcesUnsorted(srcs) == FirstOccurrences(srcs, {})

\* line 141
UniqueSources(srcs) == SortedList(ToSet(srcs))

\* faulty variant of AppendSources: appends the section without testing sources
AppendSourcesAlways(text, srcs) ==
    text \o <<BlankLine, SourcesHeader, BulletSeparator>>
         \o Join(<<BulletSeparator>>, UniqueSources(srcs))

\* lines 140-142
AppendSources(text, srcs) ==
    IF srcs # << >>
    THEN text \o <<BlankLine, SourcesHeader, BulletSeparator>>
              \o Join(<<BulletSeparator>>, UniqueSources(srcs))
    ELSE text

\* faulty variant of LLMReturn: puts the exception message into the returned string
LLMReturnLeaks(outcome, srcs) ==
    IF outcome.status = "ok"
    THEN [ret |-> AppendSources(outcome.val, srcs), shown |-> << >>]
    ELSE [ret |-> Append(GenerationErrorAnswer, outcome.exc),
          shown |-> <<StError(<<"Fehler beim Aufruf des LLM: ", outcome.exc>>)>>]

\* faulty variant of LLMReturn: appends the sources to the error string as well
LLMReturnSourcesOnError(outcome, srcs) ==
    IF outcome.status = "ok"
    THEN [ret |-> AppendSources(outcome.val, srcs), shown |-> << >>]
    ELSE [ret |-> AppendSources(GenerationErrorAnswer, srcs),
          shown |-> <<StError(<<"Fehler beim Aufruf des LLM: ", outcome.exc>>)>>]

\* lines 137-148: what get_llm_answer makes of the model's reply
LLMReturn(outcome, srcs) ==
    IF outcome.status = "ok"
    THEN [ret |-> AppendSources(outcome.val, srcs), shown |-> << >>]
    ELSE [ret |-> GenerationErrorAnswer,
          shown |-> <<StError(<<"Fehler beim Aufruf des LLM: ", outcome.exc>>)>>]

----------------------------------------------------------------------------
(* The chat logic *)

Event(op, ev) == [op |-> op, ev |-> ev]
Ended(outcome) == IF outcome.status = "ok" THEN "return" ELSE "raise"

Init ==
    /\ pc = "START"
    /\ nQueries = 0
    /\ query = << >>
    /\ query_embedding = None
    /\ rpcArgs = NoRpc
    /\ relevant_chunks = << >>
    /\ context_text = << >>
    /\ sources = << >>
    /\ llmRequest = NoRequest
    /\ answer = << >>
    /\ messages = << >>
    /\ page = << >>
    /\ events = << >>
    /\ embedOutcome = Pending
    /\ storeOutcome = Pending
    /\ llmOutcome = Pending

\* lines 156-178: a run of the script with a submitted query, up to the
\* call of the embedding provider
Submit ==
    /\ pc \in {"START", "DONE", "FAILED"}
    /\ nQueries < MaxQueries
    /\ \E q \in UserQueries :
       /\ query' = q
       /\ messages' = Append(messages, Message("user", q))
       /\ page' = RenderHistory(messages) \o <<StMarkdown(q)>>
       /\ events' = <<Event("embed", "call")>>
       /\ query_embedding' = None
       /\ rpcArgs' = NoRpc
       /\ relevant_chunks' = << >>
       /\ context_text' = << >>
       /\ sources' = << >>
       /\ llmRequest' = NoRequest
       /\ answer' = << >>
       /\ embedOutcome' = Pending
       /\ storeOutcome' = Pending
       /\ llmOutcome' = Pending
       /\ pc' = "EMBEDDING"
    /\ nQueries' = nQueries + 1

\* faulty variant of EmbeddingResponds: goes on to the search without testing
\* query_embedding
EmbeddingRespondsUnguarded ==
    /\ pc = "EMBEDDING"
    /\ \E outcome \in EmbedOutcomes :
       LET r == get_query_embedding(outcome)
       IN  /\ embedOutcome' = outcome
           /\ query_embedding' = r.ret
           /\ rpcArgs' = RpcRequest(r.ret)
           /\ events' = events \o <<Event("embed", Ended(outcome)), Event("search", "call")>>
           /\ page' = page \o r.shown
           /\ pc' = "RETRIEVING"
    /\ UNCHANGED <<nQueries, query, relevant_chunks, context_text, sources, llmRequest,
                   answer, messages, storeOutcome, llmOutcome>>

\* faulty variant of EmbeddingResponds: calls the embedding provider a second
\* time when the first call fails
EmbeddingRespondsRetry ==
    /\ pc = "EMBEDDING"
    /\ \E outcome \in EmbedOutcomes :
       LET r == get_query_embedding(outcome)
       IN  /\ embedOutcome' = outcome
           /\ query_embedding' = r.ret
           /\ IF Truthy(r.ret)
              THEN /\ rpcArgs' = RpcRequest(r.ret)
                   /\ events' = events \o <<Event("embed", Ended(outcome)), Event("search", "call")>>
                   /\ page' = page \o r.shown
                   /\ pc' = "RETRIEVING"
                   /\ UNCHANGED <<answer, messages>>
              ELSE IF Len(events) < 3
              THEN /\ events' = events \o <<Event("embed", Ended(outcome)), Event("embed", "call")>>
                   /\ page' = page \o r.shown
                   /\ pc' = "EMBEDDING"
                   /\ UNCHANGED <<answer, messages, rpcArgs>>
              ELSE /\ answer' = EmbedFailureAnswer
                   /\ events' = Append(events, Event("embed", Ended(outcome)))
                   /\ page' = page \o r.shown \o <<StMarkdown(EmbedFailureAnswer)>>
                   /\ messages' = Append(messages, Message("assistant", EmbedFailureAnswer))
                   /\ pc' = "FAILED"
                   /\ UNCHANGED rpcArgs
    /\ UNCHANGED <<nQueries, query, relevant_chunks, context_text, sources, llmRequest,
                   storeOutcome, llmOutcome>>

\* lines 68-71, 178-182 and 187-191: the embedding provider answers
EmbeddingResponds ==
    /\ pc = "EMBEDDING"
    /\ \E outcome \in EmbedOutcomes :
       LET r == get_query_embedding(outcome)
       IN  /\ embedOutcome' = outcome
           /\ query_embedding' = r.ret
           /\ IF Truthy(r.ret)
              THEN /\ rpcArgs' = RpcRequest(r.ret)
                   /\ events' = events \o <<Event("embed", Ended(outcome)), Event("search", "call")>>
                   /\ page' = page \o r.shown
                   /\ pc' = "RETRIEVING"
                   /\ UNCHANGED <<answer, messages>>
              ELSE /\ answer' = EmbedFailureAnswer
                   /\ events' = Append(events, Event("embed", Ended(outcome)))
                   /\ page' = page \o r.shown \o <<StMarkdown(EmbedFailureAnswer)>>
                   /\ messages' = Append(messages, Message("assistant", EmbedFailureAnswer))
                   /\ pc' = "FAILED"
                   /\ UNCHANGED rpcArgs
    /\ UNCHANGED <<nQueries, query, relevant_chunks, context_text, sources, llmRequest,
                   storeOutcome, llmOutcome>>

\* faulty variant of StoreResponds: a failure of the store ends the request with
\* the fixed error answer instead of going on to generation
StoreRespondsPropagates ==
    /\ pc = "RETRIEVING"
    /\ \E outcome \in StoreOutcomes(rpcArgs) :
       LET r == find_similar_chunks(outcome)
       IN  /\ storeOutcome' = outcome
           /\ page' = page \o r.shown
                          \o (IF outcome.status = "ok" THEN << >> ELSE <<StMarkdown(EmbedFailureAnswer)>>)
           /\ IF outcome.status = "ok"
              THEN /\ relevant_chunks' = r.ret
                   /\ context_text' = ContextText(r.ret)
                   /\ sources' = Sources(r.ret)
                   /\ llmRequest' = ChatRequest(query, ContextText(r.ret))
                   /\ events' = events \o <<Event("search", Ended(outcome)), Event("generate", "call")>>
                   /\ pc' = "GENERATING"
                   /\ UNCHANGED <<answer, messages>>
              ELSE /\ answer' = EmbedFailureAnswer
                   /\ events' = Append(events, Event("search", Ended(outcome)))
                   /\ messages' = Append(messages, Message("assistant", EmbedFailureAnswer))
                   /\ pc' = "FAILED"
                   /\ UNCHANGED <<relevant_chunks, context_text, sources, llmRequest>>
    /\ UNCHANGED <<nQueries, query, query_embedding, rpcArgs, embedOutcome, llmOutcome>>

\* lines 86-89, 182-185 and 97-135: the vector store answers
StoreResponds ==
    /\ pc = "RETRIEVING"
    /\ \E outcome \in StoreOutcomes(rpcArgs) :
       LET r == find_similar_chunks(outcome)
       IN  /\ storeOutcome' = outcome
           /\ relevant_chunks' = r.ret
           /\ context_text' = ContextText(r.ret)
           /\ sources' = Sources(r.ret)
           /\ llmRequest' = ChatRequest(query, ContextText(r.ret))
           /\ events' = events \o <<Event("search", Ended(outcome)), Event("generate", "call")>>
           /\ page' = page \o r.shown
    /\ pc' = "GENERATING"
    /\ UNCHANGED <<nQueries, query, query_embedding, rpcArgs, answer, messages,
                   embedOutcome, llmOutcome>>

\* lines 137-148 and 185-191: the language model answers
ModelResponds ==
    /\ pc = "GENERATING"
    /\ \E outcome \in LLMOutcomes :
       LET r == LLMReturn(outcome, sources)
       IN  /\ llmOutcome' = outcome
           /\ answer' = r.ret
           /\ events' = Append(events, Event("generate", Ended(outcome)))
           /\ page' = page \o r.shown \o <<StMarkdown(r.ret)>>
           /\ messages' = Append(messages, Message("assistant", r.ret))
    /\ pc' = "DONE"
    /\ UNCHANGED <<nQueries, query, query_embedding, rpcArgs, relevant_chunks,
                   context_text, sources, llmRequest, embedOutcome, storeOutcome>>

Next ==
    \/ Submit
    \/ EmbeddingResponds
    \/ StoreResponds
    \/ ModelResponds

Spec == Init /\ [][Next]_vars

----------------------------------------------------------------------------
(* Vocabulary of the properties *)

Contains(text, atom) == \E i \in DOMAIN text : text[i] = atom

IsInfix(sub, text) ==
    \E i \in 0..(Len(text) - Len(sub)) : \A j \in DOMAIN sub : text[i + j] = sub[j]

Called(op) == \E i \in DOMAIN events : events[i] = Event(op, "call")

Last(seq) == seq[Len(seq)]

\* the exception messages raised during the current run
RaisedDetails ==
    (IF embedOutcome.status = "raise" THEN {embedOutcome.exc} ELSE {})
        \cup (IF storeOutcome.status = "raise" THEN {storeOutcome.exc} ELSE {})
        \cup (IF llmOutcome.status = "raise" THEN {llmOutcome.exc} ELSE {})

\* the text holds the message of some exception
ShowsDetail(text) == \E k \in DOMAIN text : text[k] \in ExceptionDetails

\* the text pieces of a bulleted list, split at the bullet separator
RECURSIVE SplitOn(_, _)
SplitOn(sep, text) ==
    IF ~Contains(text, sep) THEN <<text>>
    ELSE LET i == CHOOSE k \in DOMAIN text : text[k] = sep /\ \A j \in 1..(k - 1) : text[j] # sep
         IN  <<SubSeq(text, 1, i - 1)>> \o SplitOn(sep, SubSeq(text, i + 1, Len(text)))

\* a chunk whose metadata is a mapping with a non-empty Ticker
HasTicker(chunk) ==
    /\ chunk.metadata.t = "dict"
    /\ \E p \in chunk.metadata.d : p[1] = "Ticker" /\ p[2] # << >>

\* "TICKER (Company)", Company being N/A when the mapping has none
ExpectedLabel(chunk) ==
    LET d == chunk.metadata.d
        ticker == (CHOOSE p \in d : p[1] = "Ticker")[2]
        company == IF \E p \in d : p[1] = "Company"
                   THEN (CHOOSE p \in d : p[1] = "Company")[2]
                   ELSE <<"N", "/", "A">>
    IN  ticker \o <<" ", "(">> \o company \o <<")">>

ExpectedLabels(chunks) ==
    {ExpectedLabel(chunks[i]) : i \in {j \in DOMAIN chunks : HasTicker(chunks[j])}}

SystemContent == llmRequest.messages[1].content

----------------------------------------------------------------------------
(* Properties *)

\* C1: when the embedding call fails, the answer of the request is exactly the
\* fixed failure string, and neither the vector-store search nor the
\* language-model call is made in that request.
EmbedFailureShortCircuits ==
    embedOutcome.status = "raise" =>
        /\ pc = "FAILED"
        /\ answer = <<"Fehler: Konnte die Anfrage nicht verarbeiten.">>
        /\ Last(messages) = Message("assistant", answer)
        /\ Last(page) = StMarkdown(answer)
        /\ ~Called("search") /\ rpcArgs = NoRpc /\ storeOutcome = Pending
        /\ ~Called("generate") /\ llmRequest = NoRequest /\ llmOutcome = Pending

EmbedFailureWitness ==
    /\ embedOutcome.status = "raise"
    /\ pc = "FAILED"
    /\ answer # << >>

\* C2: FAILED is entered only from EMBEDDING, on an embedding failure; a request
\* whose embedding succeeded never is in FAILED and, whatever the store and the
\* model do, ends in DONE with an answer.
FailedOnlyFromEmbedding ==
    /\ [](/\ pc = "FAILED" => embedOutcome.status = "raise"
          /\ embedOutcome.status = "ok" => pc \in {"RETRIEVING", "GENERATING", "DONE"}
          /\ (embedOutcome.status = "ok" /\ llmOutcome.status # "pending") =>
                /\ pc = "DONE"
                /\ answer # << >>
                /\ Last(messages) = Message("assistant", answer))
    /\ [][(pc' = "FAILED" /\ pc # "FAILED") => pc = "EMBEDDING"]_vars
    /\ [][(pc = "RETRIEVING" /\ pc' # pc) => pc' = "GENERATING"]_vars
    /\ [][(pc = "GENERATING" /\ pc' # pc) => pc' = "DONE"]_vars

StoreAndModelFailureWitness ==
    /\ pc = "DONE"
    /\ embedOutcome.status = "ok"
    /\ storeOutcome.status = "raise"
    /\ llmOutcome.status = "raise"

\* C3 as stated: no text rendered to the user contains the detail of an
\* exception raised in the request.
NoExceptionDetailRendered ==
    \A i \in DOMAIN page : \A e \in RaisedDetails : ~Contains(page[i].text, e)

\* C3 as amended: the answer of the request, as rendered with st.markdown and as
\* stored in the conversation, never contains the detail of a raised exception
\* and is the fixed string on an embedding or model failure; the detail is
\* rendered only in the st.error notice of the failing component.
ExceptionDetailOnlyInErrorNotice ==
    /\ ~ShowsDetail(answer)
    /\ \A i \in DOMAIN messages : ~ShowsDetail(messages[i].content)
    /\ \A i \in DOMAIN page : ShowsDetail(page[i].text) => page[i].widget = "error"
    /\ \A e \in RaisedDetails :
          \E i \in DOMAIN page : page[i].widget = "error" /\ Contains(page[i].text, e)
    /\ embedOutcome.status = "raise" =>
          answer = <<"Fehler: Konnte die Anfrage nicht verarbeiten.">>
    /\ llmOutcome.status = "raise" =>
          answer = <<"Es gab einen Fehler bei der Generierung der Antwort.">>

ErrorNoticeWitness ==
    /\ pc = "DONE"
    /\ storeOutcome.status = "raise"
    /\ llmOutcome.status = "raise"
    /\ Cardinality({i \in DOMAIN page : page[i].widget = "error"}) = 2

\* C4: when retrieval yields zero chunks (no match, or the store call failed and
\* find_similar_chunks returned an empty sequence), generation is still invoked,
\* with an empty context, and the answer has no sources section; a sources
\* section is in the answer only if a retrieved chunk produced a source label.
ZeroChunksNoSourcesSection ==
    /\ storeOutcome.status = "raise" => relevant_chunks = << >>
    /\ (storeOutcome.status # "pending" /\ relevant_chunks = << >>) =>
          /\ pc \in {"GENERATING", "DONE"}
          /\ Called("generate")
          /\ context_text = << >>
          /\ ~Contains(SystemContent, "\n---\n")
          /\ ~Contains(answer, "**Quellen:**")
    /\ Contains(answer, "**Quellen:**") =>
          \E i \in DOMAIN relevant_chunks : HasTicker(relevant_chunks[i])

ZeroChunksWitness ==
    /\ pc = "DONE"
    /\ storeOutcome.status = "raise"
    /\ relevant_chunks = << >>
    /\ llmOutcome.status = "ok"

\* C5 as stated: for an empty retrieval result the context string is empty and
\* the answer contains the fallback phrase, whatever the model returns.
EmptyRetrievalAnswerHasFallback ==
    (pc = "DONE" /\ relevant_chunks = << >>) =>
        /\ context_text = << >>
        /\ Contains(answer, "Ich habe dazu keine Informationen in meiner Datenbank.")

\* C5 as amended: for an empty retrieval result the context string is empty,
\* the system message sent to the model carries the fallback phrase and "Kein
\* Kontext gefunden." in place of the context, and the answer is the model's
\* text unchanged (the fixed generation-error string when the model call
\* fails): it contains the fallback phrase exactly when the model emitted it.
EmptyRetrievalDelegatesFallback ==
    (storeOutcome.status # "pending" /\ relevant_chunks = << >>) =>
        /\ context_text = << >>
        /\ Contains(SystemContent, "Ich habe dazu keine Informationen in meiner Datenbank.")
        /\ Last(SystemContent) = "Kein Kontext gefunden."
        /\ pc = "DONE" =>
              /\ llmOutcome.status = "ok" => answer = llmOutcome.val
              /\ llmOutcome.status = "raise" =>
                    answer = <<"Es gab einen Fehler bei der Generierung der Antwort.">>
              /\ Contains(answer, "Ich habe dazu keine Informationen in meiner Datenbank.")
                    <=> Contains(llmOutcome.val, "Ich habe dazu keine Informationen in meiner Datenbank.")

EmptyRetrievalWitness ==
    /\ pc = "DONE"
    /\ storeOutcome.status = "ok"
    /\ relevant_chunks = << >>
    /\ llmOutcome.status = "ok"
    /\ ~Contains(answer, "Ich habe dazu keine Informationen in meiner Datenbank.")

\* C6: when generation succeeds and a source label was produced, the answer is
\* the model's text, a blank line, the sources header and the list of the
\* distinct labels "TICKER (Company)", each once, in lexicographic order,
\* whatever the order and multiplicity of the retrieved chunks.
SourcesSortedAndUnique ==
    (pc = "DONE" /\ llmOutcome.status = "ok" /\ sources # << >>) =>
        LET n == Len(llmOutcome.val)
        IN  /\ Len(answer) > n + 3
            /\ SubSeq(answer, 1, n) = llmOutcome.val
            /\ answer[n + 1] = "\n\n"
            /\ answer[n + 2] = "**Quellen:**"
            /\ answer[n + 3] = "\n- "
            /\ LET listed == SplitOn("\n- ", SubSeq(answer, n + 4, Len(answer)))
               IN  /\ ToSet(listed) = ExpectedLabels(relevant_chunks)
                   /\ \A i \in 1..(Len(listed) - 1) : StrLess(listed[i], listed[i + 1])

\* tickers MSFT, AAPL, MSFT
SourcesExampleWitness ==
    /\ pc = "DONE"
    /\ llmOutcome.status = "ok"
    /\ Len(relevant_chunks) = 3
    /\ relevant_chunks[1].metadata = PyDict({<<"Ticker", MSFT>>})
    /\ relevant_chunks[2].metadata = PyDict({<<"Ticker", AAPL>>, <<"Company", Apple>>})
    /\ relevant_chunks[3].metadata = PyDict({<<"Ticker", MSFT>>})
    /\ answer = llmOutcome.val \o <<"\n\n", "**Quellen:**", "\n- ">>
                    \o <<"A", "A", "P", "L", " ", "(", "A", "p", "p", "l", "e", ")">>
                    \o <<"\n- ">>
                    \o <<"M", "S", "F", "T", " ", "(", "N", "/", "A", ")">>

\* the labels of the chunks that have a ticker, in the order of the chunks
RECURSIVE LabelsInOrder(_)
LabelsInOrder(chunks) ==
    IF chunks = << >> THEN << >>
    ELSE (IF HasTicker(Head(chunks)) THEN <<ExpectedLabel(Head(chunks))>> ELSE << >>)
             \o LabelsInOrder(Tail(chunks))

\* C7: a chunk whose metadata lacks a non-empty Ticker, is absent, is not a
\* mapping or fails on access contributes no source label and does not abort
\* assembly; the content of every chunk is in the context text, between
\* delimiter lines, in the order of the chunks.
MalformedMetadataTolerated ==
    pc \in {"GENERATING", "DONE"} =>
        /\ Len(context_text) = 3 * Len(relevant_chunks)
        /\ \A i \in DOMAIN relevant_chunks :
              /\ context_text[3 * i - 2] = "\n---\n"
              /\ context_text[3 * i - 1] = relevant_chunks[i].content
              /\ context_text[3 * i] = "\n---\n"
        /\ sources = LabelsInOrder(relevant_chunks)
        /\ Len(sources) = Cardinality({i \in DOMAIN relevant_chunks : HasTicker(relevant_chunks[i])})
        /\ Called("generate")
        /\ relevant_chunks # << >> => IsInfix(context_text, SystemContent)

MalformedMetadataWitness ==
    /\ pc = "DONE"
    /\ Len(relevant_chunks) = 3
    /\ relevant_chunks[1].metadata.t = "str"
    /\ relevant_chunks[2].metadata = PyDict({<<"Ticker", << >> >>, <<"Company", Apple>>})
    /\ relevant_chunks[3].metadata.t = "missing"
    /\ sources = << >>
    /\ Len(context_text) = 9

\* C8: in a request whose embedding succeeded, the store is called with
\* threshold 0.4 and limit 5, and the chunks passed into get_llm_answer are the
\* sequence the vector-store call returned: same length, same order, nothing
\* dropped, added or filtered again.
ChunksPassedUnfiltered ==
    /\ pc \in {"RETRIEVING", "GENERATING", "DONE"} =>
          /\ rpcArgs.fn = "match_nasdaq_chunks"
          /\ rpcArgs.query_embedding = embedOutcome.val
          /\ rpcArgs.match_threshold = 4
          /\ rpcArgs.match_count = 5
    /\ pc \in {"GENERATING", "DONE"} =>
          /\ storeOutcome.status = "ok" => relevant_chunks = storeOutcome.val
          /\ storeOutcome.status = "raise" => relevant_chunks = << >>
          /\ Len(context_text) = 3 * Len(storeOutcome.val)

ChunksPassedWitness ==
    /\ pc = "DONE"
    /\ storeOutcome.status = "ok"
    /\ Len(relevant_chunks) = 3
    /\ relevant_chunks[1] = relevant_chunks[3]
    /\ relevant_chunks[2].metadata = None

\* C9: when the language-model call fails, get_llm_answer returns exactly the
\* fixed generation-error string, with no sources section even when the chunks
\* produced source labels, and the request completes with it as its answer.
GenerationFailureFixedString ==
    llmOutcome.status = "raise" =>
        /\ pc = "DONE"
        /\ answer = <<"Es gab einen Fehler bei der Generierung der Antwort.">>
        /\ Last(messages) = Message("assistant", answer)
        /\ Last(page) = StMarkdown(answer)

GenerationFailureWitness ==
    /\ llmOutcome.status = "raise"
    /\ pc = "DONE"
    /\ sources # << >>

Count(seq, P(_)) == Cardinality({i \in DOMAIN seq : P(seq[i])})
IsUserTurn(m) == m.role = "user"
IsAssistantTurn(m) == m.role = "assistant"

\* C10: a submitted query triggers one sequential run without retry: the
\* embedding, vector-store and model calls each occur at most once, in that
\* order, each starting only after the one before has ended, and one assistant
\* answer is produced per query.
OnePipelineRunPerQuery ==
    /\ Len(events) <= 6
    /\ \A i \in DOMAIN events :
          /\ events[i].op = <<"embed", "embed", "search", "search", "generate", "generate">>[i]
          /\ events[i].ev \in (IF i % 2 = 1 THEN {"call"} ELSE {"return", "raise"})
    /\ pc = "START" <=> nQueries = 0
    /\ Count(messages, IsUserTurn) = nQueries
    /\ Count(messages, IsAssistantTurn) =
          (IF pc \in {"EMBEDDING", "RETRIEVING", "GENERATING"} THEN nQueries - 1 ELSE nQueries)
    /\ \A i \in DOMAIN messages : messages[i].role = (IF i % 2 = 1 THEN "user" ELSE "assistant")
    /\ pc \in {"DONE", "FAILED"} =>
          /\ Last(messages) = Message("assistant", answer)
          /\ Len(events) \in {2, 6}

TwoQueriesAnsweredWitness ==
    /\ pc = "DONE"
    /\ nQueries = 2
    /\ Len(messages) = 4
    /\ Len(events) = 6

====
